---- MODULE Spec2Model ----
(***************************************************************************)
(* The Robot of src/qlearning.py: a 6x6 terrain, a reward matrix, a 36x4   *)
(* Q-matrix, random (Monte Carlo) exploration, epsilon-greedy Q-learning   *)
(* and the greedy read-back of a route from the Q-matrix.                  *)
(*                                                                         *)
(* Numbers.  epsilon, alpha and gamma are fractions n/Den, kept as their   *)
(* numerator n.  A Q-value q is kept as the integer q * Scale, where       *)
(* Scale = (Den*Den)^MaxUpdates: one update divides by Den*Den at most, so *)
(* every value the model reaches is exact.  For Den = 2 these are dyadic   *)
(* numbers with few bits, which Python's floats hold exactly as well.      *)
(***************************************************************************)
EXTENDS Integers, Sequences, FiniteSets, TLC

VARIABLES
    Q_matrix,            \* self.Q_matrix, scaled by Scale
    pc,                  \* where the single thread of control is
    num_episodes,        \* q_learning: parameters of the running call
    epsilon,
    alpha,
    gamma,
    max_steps,
    episode,             \* q_learning: episodes started so far
    step,                \* q_learning: iterations of the step loop so far
    current_state_index, \* q_learning / greedy_path: local
    action_index,        \* q_learning: action of the last update
    path,                \* greedy_path: local
    total_reward,        \* greedy_path / monte_carlo_exploration: local
    looping,             \* greedy_path: the walk has come back to a cell
    num_simulations,     \* monte_carlo_exploration: parameter
    simulation,          \* monte_carlo_exploration: loop counter
    current_state,       \* monte_carlo_exploration: local, a (row, col)
    route,               \* monte_carlo_exploration: local
    best_route,          \* monte_carlo_exploration: local
    highest_reward,      \* monte_carlo_exploration: local
    ret,                 \* what the last call returned
    prev,                \* what the greedy_path call before it returned
    lessons,             \* history: episodes of the lesson taken
    updates,             \* history: Q updates of the calls followed step by step
    call_updates,        \* history: Q updates made by the running call
    episode_updates,     \* history: Q updates made by the running episode
    walks                \* history: <<route, reward>> of the finished walks

vars == <<Q_matrix, pc, num_episodes, epsilon, alpha, gamma, max_steps,
          episode, step, current_state_index, action_index, path,
          total_reward, looping, num_simulations, simulation, current_state,
          route, best_route, highest_reward, ret, prev, lessons, updates,
          call_updates, episode_updates, walks>>

---------------------------------------------------------------------------
(* Bounds of the model. *)

Den == 2            \* epsilon, alpha, gamma are multiples of 1/Den
MaxUpdates == 2     \* Q updates followed in a training run
MaxEpisodes == 2    \* largest num_episodes of a valid call
MaxSteps == 2       \* largest max_steps of a valid call
MaxSims == 2        \* largest num_simulations
MaxWalk == 8        \* a random walk is followed if it ends within MaxWalk moves

RECURSIVE Pow(_, _)
Pow(b, n) == IF n = 0 THEN 1 ELSE b * Pow(b, n - 1)

Scale == Pow(Den * Den, MaxUpdates)

---------------------------------------------------------------------------
(* Robot.__init__ *)

terrain ==
    << <<"W", "M", "M", "L", "L", "W">>,
       <<"W", "W", "L", "M", "L", "L">>,
       <<"M", "L", "L", "M", "L", "M">>,
       <<"M", "L", "L", "L", "L", "L">>,
       <<"M", "L", "M", "L", "M", "L">>,
       <<"E", "W", "W", "W", "W", "W">> >>

actions == <<"up", "down", "left", "right">>

Rows == 0 .. (Len(terrain) - 1)
Cols == 0 .. (Len(terrain[1]) - 1)
Positions == Rows \X Cols
ActionIndices == 0 .. (Len(actions) - 1)

state_indices == [p \in Positions |-> p[1] * 6 + p[2]]

StateIndices == 0 .. (Cardinality(Positions) - 1)

start_state == <<0, 3>>
end_state == <<5, 0>>

rewards == [M |-> -300, W |-> -500, L |-> 10, E |-> 1000]

\* self.rewards.get(label, 0)
rewards_get(label) == IF label \in DOMAIN rewards THEN rewards[label] ELSE 0

R_matrix == [i \in Rows |-> [j \in Cols |-> rewards_get(terrain[i + 1][j + 1])]]

ZeroQ == [s \in StateIndices |-> [a \in ActionIndices |-> 0]]

None == << >>
NegInf == << >>      \* float('-inf'); a finite reward r is <<r>>

---------------------------------------------------------------------------
(* Robot.get_next_state *)

\* (variant: the move made on the index, which runs on into the next row)
get_next_state_wrap(state_index, a) ==
    LET moved == IF a = 0 THEN state_index - 6
                 ELSE IF a = 1 THEN state_index + 6
                 ELSE IF a = 2 THEN state_index - 1
                 ELSE state_index + 1
    IN  IF moved \in StateIndices THEN moved ELSE state_index

get_next_state(state_index, a) ==
    LET row == state_index \div 6
        col == state_index % 6
        row2 == IF a = 0 THEN row - 1 ELSE IF a = 1 THEN row + 1 ELSE row
        col2 == IF a = 0 \/ a = 1 THEN col
                ELSE IF a = 2 THEN col - 1
                ELSE IF a = 3 THEN col + 1 ELSE col
    IN  IF <<row2, col2>> \in DOMAIN state_indices
        THEN state_indices[<<row2, col2>>]
        ELSE state_index

(* Robot.get_possible_actions: a list, in the order it is built *)
get_possible_actions(state_index) ==
    LET row == state_index \div 6
        col == state_index % 6
    IN  (IF row > 0 THEN <<0>> ELSE << >>) \o
        (IF row < 5 THEN <<1>> ELSE << >>) \o
        (IF col > 0 THEN <<2>> ELSE << >>) \o
        (IF col < 5 THEN <<3>> ELSE << >>)

\* max(...) of a row of the Q-matrix
MaxQ(q_values) ==
    CHOOSE m \in {q_values[a] : a \in DOMAIN q_values} :
        \A a \in DOMAIN q_values : q_values[a] <= m

---------------------------------------------------------------------------
(* The state after Robot().  A function's locals hold their initial values *)
(* whenever the function is not running.                                   *)

NoRet == [kind |-> "none"]

QLLocals == <<num_episodes, epsilon, alpha, gamma, max_steps, episode, step,
              action_index, call_updates, episode_updates>>
GreedyLocals == <<path, looping>>
MCLocals == <<num_simulations, simulation, current_state, route, best_route,
              highest_reward, walks>>

InitLocals ==
    /\ pc = "idle"
    /\ num_episodes = 0 /\ epsilon = 0 /\ alpha = 0 /\ gamma = 0
    /\ max_steps = 0 /\ episode = 0 /\ step = 0
    /\ current_state_index = 0 /\ action_index = 0
    /\ path = << >> /\ total_reward = 0 /\ looping = FALSE
    /\ num_simulations = 0 /\ simulation = 0 /\ current_state = start_state
    /\ route = << >> /\ best_route = None /\ highest_reward = NegInf
    /\ ret = NoRet /\ prev = NoRet
    /\ lessons = 0 /\ updates = 0 /\ call_updates = 0 /\ episode_updates = 0
    /\ walks = << >>

Init ==
    /\ Q_matrix = ZeroQ
    /\ InitLocals

---------------------------------------------------------------------------
(* Robot.q_learning *)

\* the parameters a caller passes; the numerators of epsilon, alpha, gamma
Calls(episodes, epsilons, alphas, gammas, steps) ==
    [num_episodes : episodes, epsilon : epsilons, alpha : alphas,
     gamma : gammas, max_steps : steps]

\* [state for state in range(36) if state != end_state_index]
EpisodeStarts == {s \in StateIndices : s # state_indices[end_state]}

\* range(num_episodes) / range(max_steps) still yields a value
EpisodesLeft == episode < num_episodes

\* (variant: one step too many)
StepsLeftInclusive == step <= max_steps

StepsLeft == step < max_steps

\* (variant: the episode is not ended at end_state)
NeverAtEnd == FALSE

\* if current_state_index == end_state_index
AtEnd == current_state_index = state_indices[end_state]

\* (variant: the 36 rows are one shared list)
StoreQShared(Q, s, a, v) == [t \in DOMAIN Q |-> [Q[t] EXCEPT ![a] = v]]

\* self.Q_matrix[s][a] = v
StoreQ(Q, s, a, v) == [Q EXCEPT ![s][a] = v]

\* (variant: the reward of the cell left, not of the cell entered)
QUpdateOwnReward(Q, s, a, next, al, ga) ==
    LET reward == R_matrix[s \div 6][s % 6]
        max_next_q_value == MaxQ(Q[next])
    IN  Q[s][a] + (al * (Den * reward * Scale + ga * max_next_q_value
                         - Den * Q[s][a])) \div (Den * Den)

\* the right-hand side of the Q-learning update, scaled
QUpdate(Q, s, a, next, al, ga) ==
    LET row == next \div 6
        col == next % 6
        reward == R_matrix[row][col]
        next_q_values == Q[next]
        max_next_q_value == IF DOMAIN next_q_values # {}
                            THEN MaxQ(next_q_values) ELSE 0
        current_q_value == Q[s][a]
    IN  Q[s][a] + (al * (Den * reward * Scale + ga * max_next_q_value
                         - Den * current_q_value)) \div (Den * Den)

\* best_actions of get_next_state_eg
BestActions(Q, s) == {a \in ActionIndices : Q[s][a] = MaxQ(Q[s])}

\* random.uniform(0, 1) lies in [0, 1): "< epsilon" can be true / can be false
CanExplore(eps) == eps > 0
CanExploit(eps) == eps < Den

\* the actions get_next_state_eg can choose
EgActions(Q, s, eps) ==
    (IF CanExplore(eps) THEN ActionIndices ELSE {}) \cup
    (IF CanExploit(eps)
     THEN (IF BestActions(Q, s) # {} THEN BestActions(Q, s) ELSE ActionIndices)
     ELSE {})

QLearningCall(calls) ==
    /\ pc = "idle"
    /\ \E p \in calls :
          /\ num_episodes' = p.num_episodes
          /\ epsilon' = p.epsilon
          /\ alpha' = p.alpha
          /\ gamma' = p.gamma
          /\ max_steps' = p.max_steps
    /\ pc' = "episode_loop"
    /\ ret' = NoRet
    /\ prev' = NoRet
    /\ UNCHANGED <<Q_matrix, episode, step, current_state_index, action_index,
                   total_reward, updates, lessons, call_updates,
                   episode_updates>>
    /\ UNCHANGED GreedyLocals
    /\ UNCHANGED MCLocals

\* for episode in range(num_episodes): current_state_index = random.choice(...)
\* (an episode is followed while the budget allows its first update)
EpisodeStart(budget) ==
    /\ pc = "episode_loop"
    /\ EpisodesLeft
    /\ updates < budget
    /\ \E s \in EpisodeStarts : current_state_index' = s
    /\ episode' = episode + 1
    /\ step' = 0
    /\ episode_updates' = 0
    /\ pc' = "step_loop"
    /\ UNCHANGED <<Q_matrix, num_episodes, epsilon, alpha, gamma, max_steps,
                   action_index, total_reward, ret, prev, updates,
                   call_updates, lessons>>
    /\ UNCHANGED GreedyLocals
    /\ UNCHANGED MCLocals

\* one iteration of the step loop that does not break
TrainStep(budget) ==
    /\ pc = "step_loop"
    /\ StepsLeft
    /\ ~AtEnd
    /\ updates < budget
    /\ \E a \in EgActions(Q_matrix, current_state_index, epsilon) :
          LET next_state_index == get_next_state(current_state_index, a)
          IN  /\ action_index' = a
              /\ Q_matrix' = StoreQ(Q_matrix, current_state_index, a,
                                     QUpdate(Q_matrix, current_state_index, a,
                                             next_state_index, alpha, gamma))
              /\ current_state_index' = next_state_index
    /\ step' = step + 1
    /\ updates' = updates + 1
    /\ call_updates' = call_updates + 1
    /\ episode_updates' = episode_updates + 1
    /\ UNCHANGED <<pc, num_episodes, epsilon, alpha, gamma, max_steps, episode,
                   total_reward, ret, prev, lessons>>
    /\ UNCHANGED GreedyLocals
    /\ UNCHANGED MCLocals

\* if current_state_index == end_state_index: break
EpisodeBreak ==
    /\ pc = "step_loop"
    /\ StepsLeft
    /\ AtEnd
    /\ pc' = "episode_loop"
    /\ UNCHANGED <<Q_matrix, current_state_index, total_reward, ret, prev,
                   updates, lessons>>
    /\ UNCHANGED QLLocals
    /\ UNCHANGED GreedyLocals
    /\ UNCHANGED MCLocals

\* range(max_steps) is exhausted
EpisodeEnd ==
    /\ pc = "step_loop"
    /\ ~StepsLeft
    /\ pc' = "episode_loop"
    /\ UNCHANGED <<Q_matrix, current_state_index, total_reward, ret, prev,
                   updates, lessons>>
    /\ UNCHANGED QLLocals
    /\ UNCHANGED GreedyLocals
    /\ UNCHANGED MCLocals

\* range(num_episodes) is exhausted: q_learning returns None
QLearningReturn ==
    /\ pc = "episode_loop"
    /\ ~EpisodesLeft
    /\ pc' = "idle"
    /\ ret' = [kind |-> "q_learning"]
    /\ num_episodes' = 0 /\ epsilon' = 0 /\ alpha' = 0 /\ gamma' = 0
    /\ max_steps' = 0 /\ episode' = 0 /\ step' = 0
    /\ current_state_index' = 0 /\ action_index' = 0
    /\ call_updates' = 0 /\ episode_updates' = 0
    /\ UNCHANGED <<Q_matrix, total_reward, prev, updates, lessons>>
    /\ UNCHANGED GreedyLocals
    /\ UNCHANGED MCLocals

---------------------------------------------------------------------------
(* Robot.greedy_path *)

\* (variant: the running best replaced by an equal key too)
RECURSIVE PyMaxLast(_, _, _)
PyMaxLast(pairs, q_values, best) ==
    IF pairs = << >> THEN best
    ELSE PyMaxLast(Tail(pairs), q_values,
                   IF q_values[Head(pairs)[1]] >= q_values[best[1]]
                   THEN Head(pairs) ELSE best)

\* max(pairs, key=lambda action: q_values[action[0]]): the first of the
\* largest, the running best replaced only by a strictly larger key
RECURSIVE PyMax(_, _, _)
PyMax(pairs, q_values, best) ==
    IF pairs = << >> THEN best
    ELSE PyMax(Tail(pairs), q_values,
               IF q_values[Head(pairs)[1]] > q_values[best[1]]
               THEN Head(pairs) ELSE best)

\* [(action, self.get_next_state(current, action)) for action in ...]
PossibleMoves(s) ==
    LET acts == get_possible_actions(s)
    IN  [i \in 1 .. Len(acts) |-> <<acts[i], get_next_state(s, acts[i])>>]

\* (variant: a tie broken either way, the first or the last of the largest)
TiedMoves(Q, s) ==
    {PyMax(Tail(PossibleMoves(s)), Q[s], Head(PossibleMoves(s))),
     PyMaxLast(Tail(PossibleMoves(s)), Q[s], Head(PossibleMoves(s)))}

\* what max(possible_actions, key=...) can return
BestMoves(Q, s) ==
    {PyMax(Tail(PossibleMoves(s)), Q[s], Head(PossibleMoves(s)))}

PositionOf(s) == <<s \div 6, s % 6>>

Cells(seq) == {seq[i] : i \in 1 .. Len(seq)}

GreedyCall ==
    /\ pc = "idle"
    /\ pc' = "greedy_loop"
    /\ current_state_index' = state_indices[start_state]
    /\ path' = <<start_state>>
    /\ total_reward' = 0
    /\ looping' = FALSE
    /\ prev' = IF ret.kind = "greedy_path" THEN ret ELSE NoRet
    /\ ret' = NoRet
    /\ UNCHANGED <<Q_matrix, updates, lessons>>
    /\ UNCHANGED QLLocals
    /\ UNCHANGED MCLocals

\* One iteration of the while loop.  path and total_reward are followed until
\* the walk comes back to a cell of its path; from then on (looping) the walk
\* still moves, and the model no longer extends the two.
GreedyStep ==
    /\ pc = "greedy_loop"
    /\ current_state_index # state_indices[end_state]
    /\ PossibleMoves(current_state_index) # << >>
    /\ \E best \in BestMoves(Q_matrix, current_state_index) :
       LET best_next_state_index == best[2]
           next_state == PositionOf(best_next_state_index)
       IN  /\ current_state_index' = best_next_state_index
           /\ IF looping
              THEN UNCHANGED <<path, total_reward, looping>>
              ELSE /\ path' = Append(path, next_state)
                   /\ total_reward' =
                         total_reward + R_matrix[next_state[1]][next_state[2]]
                   /\ looping' = (next_state \in Cells(path))
    /\ UNCHANGED <<Q_matrix, pc, ret, prev, updates, lessons>>
    /\ UNCHANGED QLLocals
    /\ UNCHANGED MCLocals

\* the while condition fails, or "if not possible_actions: break"
GreedyReturn ==
    /\ pc = "greedy_loop"
    /\ IF current_state_index = state_indices[end_state]
       THEN TRUE
       ELSE PossibleMoves(current_state_index) = << >>
    /\ pc' = "idle"
    /\ ret' = [kind |-> "greedy_path", route |-> path, reward |-> total_reward,
               whole |-> ~looping]
    /\ current_state_index' = 0
    /\ path' = << >>
    /\ total_reward' = 0
    /\ looping' = FALSE
    /\ UNCHANGED <<Q_matrix, prev, updates, lessons>>
    /\ UNCHANGED QLLocals
    /\ UNCHANGED MCLocals

---------------------------------------------------------------------------
(* Robot.get_next_state_mc and Robot.monte_carlo_exploration *)

Moves == [up |-> <<-1, 0>>, down |-> <<1, 0>>, left |-> <<0, -1>>,
          right |-> <<0, 1>>]

\* the states get_next_state_mc can return
get_next_state_mc(state) ==
    LET row == state[1]
        col == state[2]
        possible_actions ==
            {m \in DOMAIN Moves :
                /\ 0 <= row + Moves[m][1] /\ row + Moves[m][1] < 6
                /\ 0 <= col + Moves[m][2] /\ col + Moves[m][2] < 6}
    IN  IF possible_actions # {}
        THEN {<<row + Moves[m][1], col + Moves[m][2]>> : m \in possible_actions}
        ELSE {state}

Abs(n) == IF n < 0 THEN -n ELSE n

\* the moves a walk at p needs at least to reach end_state
MovesToEnd(p) == Abs(p[1] - end_state[1]) + Abs(p[2] - end_state[2])

\* (variant: a walk as good as the best replaces it)
ExceedsOrTies(r, highest) == IF highest = NegInf THEN TRUE ELSE r >= highest[1]

\* total_reward > highest_reward, with float('-inf') below every number
Exceeds(r, highest) == IF highest = NegInf THEN TRUE ELSE r > highest[1]

MCCall(sims) ==
    /\ pc = "idle"
    /\ \E n \in sims : num_simulations' = n
    /\ simulation' = 0
    /\ best_route' = None
    /\ highest_reward' = NegInf
    /\ walks' = << >>
    /\ pc' = "mc_loop"
    /\ ret' = NoRet
    /\ prev' = NoRet
    /\ UNCHANGED <<Q_matrix, current_state_index, total_reward, current_state,
                   route, updates, lessons>>
    /\ UNCHANGED QLLocals
    /\ UNCHANGED GreedyLocals

\* for simulation in range(num_simulations): the three assignments
MCSimulationStart ==
    /\ pc = "mc_loop"
    /\ simulation < num_simulations
    /\ current_state' = start_state
    /\ total_reward' = 0
    /\ route' = <<start_state>>
    /\ pc' = "mc_walk"
    /\ UNCHANGED <<Q_matrix, current_state_index, num_simulations, simulation,
                   best_route, highest_reward, walks, ret, prev, updates,
                   lessons>>
    /\ UNCHANGED QLLocals
    /\ UNCHANGED GreedyLocals

\* One iteration of the while loop.  The model follows the walks that reach
\* end_state within MaxWalk moves.
MCWalkStep ==
    /\ pc = "mc_walk"
    /\ current_state # end_state
    /\ \E next_state \in get_next_state_mc(current_state) :
          /\ Len(route) + MovesToEnd(next_state) <= MaxWalk
          /\ total_reward' =
                total_reward + R_matrix[next_state[1]][next_state[2]]
          /\ route' = Append(route, next_state)
          /\ current_state' = next_state
    /\ UNCHANGED <<Q_matrix, pc, current_state_index, num_simulations,
                   simulation, best_route, highest_reward, walks, ret, prev,
                   updates, lessons>>
    /\ UNCHANGED QLLocals
    /\ UNCHANGED GreedyLocals

\* the walk is at end_state: if total_reward > highest_reward: ...
MCSimulationEnd ==
    /\ pc = "mc_walk"
    /\ current_state = end_state
    /\ IF Exceeds(total_reward, highest_reward)
       THEN /\ best_route' = route
            /\ highest_reward' = <<total_reward>>
       ELSE UNCHANGED <<best_route, highest_reward>>
    /\ walks' = Append(walks, <<route, total_reward>>)
    /\ simulation' = simulation + 1
    /\ pc' = "mc_loop"
    /\ UNCHANGED <<Q_matrix, current_state_index, total_reward, num_simulations,
                   current_state, route, ret, prev, updates, lessons>>
    /\ UNCHANGED QLLocals
    /\ UNCHANGED GreedyLocals

\* return best_route, highest_reward
MCReturn ==
    /\ pc = "mc_loop"
    /\ simulation >= num_simulations
    /\ pc' = "idle"
    /\ ret' = [kind |-> "monte_carlo_exploration", route |-> best_route,
               reward |-> highest_reward, walks |-> walks]
    /\ num_simulations' = 0 /\ simulation' = 0
    /\ current_state' = start_state /\ route' = << >>
    /\ best_route' = None /\ highest_reward' = NegInf
    /\ total_reward' = 0 /\ walks' = << >>
    /\ UNCHANGED <<Q_matrix, current_state_index, prev, updates, lessons>>
    /\ UNCHANGED QLLocals
    /\ UNCHANGED GreedyLocals

---------------------------------------------------------------------------
(* The other public methods, called on their own *)

Untouched ==
    /\ UNCHANGED <<Q_matrix, pc, current_state_index, total_reward, updates,
                   lessons>>
    /\ UNCHANGED QLLocals
    /\ UNCHANGED GreedyLocals
    /\ UNCHANGED MCLocals

GetNextStateCall(states) ==
    /\ pc = "idle"
    /\ \E s \in states, a \in ActionIndices :
          ret' = [kind |-> "get_next_state", state_index |-> s,
                  action_index |-> a, value |-> get_next_state(s, a)]
    /\ prev' = NoRet
    /\ Untouched

GetPossibleActionsCall(states) ==
    /\ pc = "idle"
    /\ \E s \in states :
          ret' = [kind |-> "get_possible_actions", state_index |-> s,
                  value |-> get_possible_actions(s)]
    /\ prev' = NoRet
    /\ Untouched

GetNextStateEgCall(states, epsilons) ==
    /\ pc = "idle"
    /\ \E s \in states, eps \in epsilons :
          \E a \in EgActions(Q_matrix, s, eps) :
             ret' = [kind |-> "get_next_state_eg", state_index |-> s,
                     epsilon |-> eps, value |-> <<get_next_state(s, a), a>>]
    /\ prev' = NoRet
    /\ Untouched

GetNextStateMcCall(states) ==
    /\ pc = "idle"
    /\ \E s \in states :
          \E next_state \in get_next_state_mc(PositionOf(s)) :
             ret' = [kind |-> "get_next_state_mc", state |-> PositionOf(s),
                     value |-> next_state]
    /\ prev' = NoRet
    /\ Untouched

---------------------------------------------------------------------------
(* Training a route.  Lesson lists, for seven episodes of one step each,   *)
(* the state the episode starts at and the action it explores.  One Taught *)
(* step is the call q_learning(1, epsilon=1, alpha=1, gamma=1, max_steps=1)*)
(* whose episode draws the next pair of the lesson, run to its return.     *)

Lesson == << <<24, 1>>, <<25, 2>>, <<19, 1>>, <<20, 2>>, <<14, 1>>, <<8, 1>>,
             <<9, 2>> >>

Taught ==
    /\ pc = "idle"
    /\ updates = 0
    /\ lessons < Len(Lesson)
    /\ LET s == Lesson[lessons + 1][1]
           a == Lesson[lessons + 1][2]
       IN  /\ s \in EpisodeStarts
           /\ a \in EgActions(Q_matrix, s, Den)
           /\ Q_matrix' = StoreQ(Q_matrix, s, a,
                                  QUpdate(Q_matrix, s, a, get_next_state(s, a),
                                          Den, Den))
    /\ lessons' = lessons + 1
    /\ ret' = [kind |-> "q_learning"]
    /\ prev' = NoRet
    /\ UNCHANGED <<pc, current_state_index, total_reward, updates>>
    /\ UNCHANGED QLLocals
    /\ UNCHANGED GreedyLocals
    /\ UNCHANGED MCLocals

---------------------------------------------------------------------------
(* Specifications *)

Epsilons == {0, 1, Den}

\* the states the helper methods are called with beside training
Probes == {state_indices[start_state], state_indices[end_state]}

\* every operation
Next ==
    \/ Taught
    \/ QLearningCall(Calls({1}, Epsilons, {1}, {Den}, 1 .. MaxSteps))
    \/ EpisodeStart(MaxUpdates - 1)
    \/ TrainStep(MaxUpdates - 1)
    \/ EpisodeBreak
    \/ EpisodeEnd
    \/ QLearningReturn
    \/ GreedyCall
    \/ GreedyStep
    \/ GreedyReturn
    \/ MCCall({1})
    \/ MCSimulationStart
    \/ MCWalkStep
    \/ MCSimulationEnd
    \/ MCReturn
    \/ GetNextStateCall(Probes)
    \/ GetPossibleActionsCall(Probes)
    \/ GetNextStateEgCall(Probes, Epsilons)
    \/ GetNextStateMcCall(Probes)

Spec == Init /\ [][Next]_vars

\* training alone; with epsilon 1/Den a step can take any action, the random
\* one or the best
NextTrain ==
    \/ QLearningCall(Calls(1 .. MaxEpisodes, {1}, {1, Den}, {1, Den},
                            1 .. MaxSteps))
    \/ EpisodeStart(MaxUpdates)
    \/ TrainStep(MaxUpdates)
    \/ EpisodeBreak
    \/ EpisodeEnd
    \/ QLearningReturn

SpecTrain == Init /\ [][NextTrain]_vars

\* the lesson, one more update, and the greedy read-back
NextTrained ==
    \/ Taught
    \/ QLearningCall(Calls({1}, Epsilons, {1, Den}, {1, Den}, 1 .. MaxSteps))
    \/ EpisodeStart(MaxUpdates - 1)
    \/ TrainStep(MaxUpdates - 1)
    \/ EpisodeBreak
    \/ EpisodeEnd
    \/ QLearningReturn
    \/ GreedyCall
    \/ GreedyStep
    \/ GreedyReturn

SpecTrained == Init /\ [][NextTrained]_vars

\* a running greedy_path is not suspended
FairTrained == SpecTrained /\ WF_vars(GreedyStep) /\ WF_vars(GreedyReturn)

\* calls with parameters outside the stated ranges as well
NextAnyCall ==
    \/ QLearningCall(Calls(0 .. 1, {-1, 1}, {0, 1, Den + 1}, {1, Den + 1},
                            0 .. MaxSteps))
    \/ EpisodeStart(MaxUpdates - 1)
    \/ TrainStep(MaxUpdates - 1)
    \/ EpisodeBreak
    \/ EpisodeEnd
    \/ QLearningReturn
    \/ MCCall(0 .. 1)
    \/ MCSimulationStart
    \/ MCWalkStep
    \/ MCSimulationEnd
    \/ MCReturn

SpecAnyCall == Init /\ [][NextAnyCall]_vars

\* random exploration alone
NextMC ==
    \/ MCCall(1 .. MaxSims)
    \/ MCSimulationStart
    \/ MCWalkStep
    \/ MCSimulationEnd
    \/ MCReturn

SpecMC == Init /\ [][NextMC]_vars

\* the helper methods alone, on every state
NextCalls ==
    \/ GetNextStateCall(StateIndices)
    \/ GetPossibleActionsCall(StateIndices)
    \/ GetNextStateEgCall(StateIndices, Epsilons)
    \/ GetNextStateMcCall(StateIndices)

SpecCalls == Init /\ [][NextCalls]_vars

---------------------------------------------------------------------------
(* Vocabulary of the properties *)

Row(s) == s \div 6
Col(s) == s % 6
Index(p) == 6 * p[1] + p[2]
OnGrid(r, c) == r \in 0 .. 5 /\ c \in 0 .. 5

\* the row and column that action a aims at from state s
AimRow(s, a) == IF a = 0 THEN Row(s) - 1 ELSE IF a = 1 THEN Row(s) + 1 ELSE Row(s)
AimCol(s, a) == IF a = 2 THEN Col(s) - 1 ELSE IF a = 3 THEN Col(s) + 1 ELSE Col(s)

\* the 4-neighbour if it is on the grid, the state itself if not
Target(s, a) ==
    IF OnGrid(AimRow(s, a), AimCol(s, a))
    THEN 6 * AimRow(s, a) + AimCol(s, a)
    ELSE s

CellReward(s) == rewards[terrain[Row(s) + 1][Col(s) + 1]]

Largest(S) == CHOOSE x \in S : \A y \in S : y <= x

Training == {"episode_loop", "step_loop"}
Exploring == {"mc_loop", "mc_walk"}

---------------------------------------------------------------------------
\* C1: greedy_path always terminates: once called, it returns, and the route
\* it returns ends at end_state (for every Q-matrix, the all-zero one too).
GreedyTerminates ==
    (pc = "greedy_loop") ~>
        (/\ pc = "idle"
         /\ ret.kind = "greedy_path"
         /\ ret.route[Len(ret.route)] = end_state)

---------------------------------------------------------------------------
\* C2: get_next_state returns a state index in 0..35: the index of the
\* 4-neighbour when that cell is on the grid, the unchanged index when the
\* move would leave the grid (no wrap into another row).
BoundsRule ==
    ret.kind = "get_next_state" =>
        /\ ret.value \in 0 .. 35
        /\ ret.value = Target(ret.state_index, ret.action_index)
        /\ ~OnGrid(AimRow(ret.state_index, ret.action_index),
                   AimCol(ret.state_index, ret.action_index))
              => ret.value = ret.state_index

\* 'up' from (0,0) has returned (0,0)
BoundsRuleWitness ==
    /\ ret.kind = "get_next_state"
    /\ ret.state_index = 0
    /\ ret.action_index = 0
    /\ ret.value = 0

---------------------------------------------------------------------------
\* C3: one training step from s with action a and successor n (n = s on an
\* off-grid action) sets Q[s][a] to
\*     Q_old[s][a] + alpha * (R[n] + gamma * max(Q_old[n]) - Q_old[s][a]),
\* the maximum read before the write.  (Both sides times Den * Den.)
UpdateRule ==
    [][updates' = updates + 1 =>
          LET s == current_state_index
              a == action_index'
              n == current_state_index'
              old == Q_matrix[s][a]
              best == Largest({Q_matrix[n][b] : b \in 0 .. 3})
          IN  /\ n = Target(s, a)
              /\ Den * Den * Q_matrix'[s][a] =
                    Den * Den * old
                    + alpha * (Den * CellReward(n) * Scale + gamma * best
                               - Den * old)]_vars

\* after the lesson, 'left' from (4,0) has looped onto (4,0), whose best value
\* was 1000: with alpha = gamma = 1/Den the entry is now (-300 + 1000/Den)/Den
UpdateRuleWitness ==
    /\ pc = "step_loop"
    /\ lessons = Len(Lesson)
    /\ updates = 1
    /\ alpha = 1 /\ gamma = 1
    /\ current_state_index = 24 /\ action_index = 2
    /\ Q_matrix[24][1] = 1000 * Scale
    /\ Q_matrix[24][2] # 0
    /\ Den * Den * Q_matrix[24][2] = Scale * (1000 - 300 * Den)

---------------------------------------------------------------------------
\* what is left of a q_learning call: episodes, then steps of the episode
Rank ==
    (num_episodes - episode) * (max_steps + 2)
    + (IF pc = "step_loop" THEN max_steps - step + 1 ELSE 0)

EpisodeInv ==
    /\ pc = "step_loop" /\ step = 0 =>
          current_state_index \in (0 .. 35) \ {30}
    /\ pc = "episode_loop" /\ episode < num_episodes /\ updates < MaxUpdates =>
          \A s \in (0 .. 35) \ {30} :
             ENABLED (EpisodeStart(MaxUpdates) /\ current_state_index' = s)
    /\ pc \in Training =>
          /\ episode <= num_episodes
          /\ step <= max_steps
          /\ episode_updates <= max_steps
          /\ call_updates <= num_episodes * max_steps

EpisodeStepRule ==
    /\ pc = "step_loop" /\ current_state_index = 30 =>
          Q_matrix' = Q_matrix /\ call_updates' = call_updates
    /\ pc = "step_loop" /\ pc' = "episode_loop" => Q_matrix' = Q_matrix
    /\ pc \in Training /\ pc' \in Training => Rank' < Rank /\ Rank' >= 0

\* C4: every episode starts in a state other than end_state, and any of the
\* other 35 can be chosen; an episode makes at most max_steps updates and
\* none once the current state is end_state; an episode that runs out of
\* steps stops with its updates kept; the call ends after at most
\* num_episodes * max_steps updates.
EpisodeStructure == []EpisodeInv /\ [][EpisodeStepRule]_vars

\* an episode of two steps has ended after one, at end_state, and the second
\* episode of the call is due
EpisodeStructureWitness ==
    /\ pc = "episode_loop"
    /\ num_episodes = 2 /\ episode = 1
    /\ max_steps = 2 /\ step = 1
    /\ current_state_index = 30
    /\ episode_updates = 1

---------------------------------------------------------------------------
\* the steps of the operations that are not q_learning
HelperKinds ==
    {"get_next_state", "get_next_state_eg", "get_possible_actions",
     "get_next_state_mc"}

OutsideTraining ==
    \/ pc \in Exploring \/ pc' \in Exploring
    \/ pc = "greedy_loop" \/ pc' = "greedy_loop"
    \/ pc = "idle" /\ pc' = "idle" /\ ret'.kind \in HelperKinds

OnlyEntry(s, a) ==
    \A t \in 0 .. 35, b \in 0 .. 3 :
        Q_matrix'[t][b] # Q_matrix[t][b] => t = s /\ b = a

FrameStepRule ==
    /\ OutsideTraining => Q_matrix' = Q_matrix
    /\ Q_matrix' # Q_matrix =>
          \/ /\ pc = "step_loop"
             /\ OnlyEntry(current_state_index, action_index')
          \/ /\ lessons' = lessons + 1
             /\ OnlyEntry(Lesson[lessons'][1], Lesson[lessons'][2])

\* C5: the Q-matrix is changed only by q_learning: no step of
\* monte_carlo_exploration, get_next_state, get_next_state_eg,
\* get_possible_actions, get_next_state_mc or greedy_path changes an entry,
\* and a training step changes at most the entry Q[current][action].
FrameRule == [][FrameStepRule]_vars

\* a random exploration has returned a route on a Q-matrix that training
\* has written to, and the Q-matrix still holds what training wrote
FrameRuleWitness ==
    /\ pc = "idle"
    /\ ret.kind = "monte_carlo_exploration"
    /\ ret.route # None
    /\ lessons = 1 /\ updates = 1
    /\ Q_matrix[24][1] = 1000 * Scale
    /\ Cardinality({p \in (0 .. 35) \X (0 .. 3) :
                       Q_matrix[p[1]][p[2]] # 0}) = 2

---------------------------------------------------------------------------
\* C6: two calls of greedy_path in succession, no q_learning call between
\* them, return the same route and the same total reward: the second call
\* follows the route of the first cell by cell.
GreedyIdempotent ==
    /\ pc = "greedy_loop" /\ prev.kind = "greedy_path" =>
          /\ Len(path) <= Len(prev.route)
          /\ path = SubSeq(prev.route, 1, Len(path))
    /\ ret.kind = "greedy_path" /\ prev.kind = "greedy_path" =>
          /\ ret.route = prev.route
          /\ ret.reward = prev.reward

\* two calls in succession have both returned a route from start to end
GreedyIdempotentWitness ==
    /\ pc = "idle"
    /\ ret.kind = "greedy_path" /\ prev.kind = "greedy_path"
    /\ ret.route[1] = start_state
    /\ ret.route[Len(ret.route)] = end_state

---------------------------------------------------------------------------
\* the best of a sequence of walks <<route, total reward>>
BestOf(ws) == Largest({ws[i][2] : i \in 1 .. Len(ws)})

FirstBest(ws) ==
    CHOOSE i \in 1 .. Len(ws) :
        /\ ws[i][2] = BestOf(ws)
        /\ \A j \in 1 .. (i - 1) : ws[j][2] < BestOf(ws)

BestSoFar(ws, route_, reward_) ==
    IF ws = << >>
    THEN route_ = None /\ reward_ = NegInf
    ELSE /\ reward_ = <<BestOf(ws)>>
         /\ route_ = ws[FirstBest(ws)][1]
         /\ \A k \in 1 .. (Len(ws) - 1) : BestOf(SubSeq(ws, 1, k)) <= reward_[1]

\* C7: after the k-th simulation highest_reward is the largest total reward
\* of walks 1..k and best_route the route of the first walk that attained
\* it; so the best of the first k walks is never less than that of the
\* first k-1.
BestOfN ==
    /\ pc \in Exploring =>
          /\ Len(walks) = simulation
          /\ BestSoFar(walks, best_route, highest_reward)
    /\ ret.kind = "monte_carlo_exploration" =>
          BestSoFar(ret.walks, ret.route, ret.reward)

\* two walks have ended with the same total reward on different routes, and
\* the first is still the best
BestOfNWitness ==
    /\ pc = "mc_loop"
    /\ Len(walks) = 2
    /\ walks[1][2] = walks[2][2]
    /\ walks[1][1] # walks[2][1]
    /\ best_route = walks[1][1]

---------------------------------------------------------------------------
\* C8: a call of q_learning with epsilon, alpha or gamma outside its range or
\* with non-positive num_episodes or max_steps, and a call of
\* monte_carlo_exploration with non-positive num_simulations, fails before
\* any work begins: it makes no update of the Q-matrix and returns no
\* route and reward.
ValidCall ==
    /\ num_episodes > 0
    /\ max_steps > 0
    /\ epsilon \in 0 .. Den
    /\ alpha \in 1 .. Den
    /\ gamma \in 0 .. Den

ParameterValidation ==
    /\ call_updates > 0 => ValidCall
    /\ pc = "mc_walk" => num_simulations > 0
    /\ ret.kind = "monte_carlo_exploration" => ret.walks # << >>

---------------------------------------------------------------------------
\* the greedy choice, stated on the grid
Stays(s, a) == OnGrid(AimRow(s, a), AimCol(s, a))

FirstLargest(s) ==
    CHOOSE a \in 0 .. 3 :
        /\ Stays(s, a)
        /\ \A b \in 0 .. 3 : Stays(s, b) => Q_matrix[s][b] <= Q_matrix[s][a]
        /\ \A b \in 0 .. (a - 1) : Stays(s, b) => Q_matrix[s][b] < Q_matrix[s][a]

RECURSIVE SumOfRewards(_)
SumOfRewards(cells) ==
    IF cells = << >> THEN 0
    ELSE R_matrix[Head(cells)[1]][Head(cells)[2]] + SumOfRewards(Tail(cells))

GreedyRoute(cells, total) ==
    /\ cells # << >>
    /\ cells[1] = start_state
    /\ \A i \in 1 .. (Len(cells) - 1) :
          /\ cells[i + 1] \in Positions
          /\ cells[i + 1] # cells[i]
          /\ Abs(cells[i + 1][1] - cells[i][1])
             + Abs(cells[i + 1][2] - cells[i][2]) = 1
          /\ Index(cells[i + 1]) = Target(Index(cells[i]), FirstLargest(Index(cells[i])))
    /\ total = SumOfRewards(Tail(cells))

\* C9: each step of greedy_path takes an action whose move stays on the
\* grid, of the largest Q-value among those, the first such in the order up,
\* down, left, right; so consecutive positions of the route are distinct
\* 4-adjacent cells of the grid, and total_reward is the sum of the rewards
\* of the route's cells but the first.
GreedySelection ==
    /\ pc = "greedy_loop" => GreedyRoute(path, total_reward)
    /\ ret.kind = "greedy_path" => GreedyRoute(ret.route, ret.reward)

\* greedy_path has returned the taught route: from (0,3), where down, left and
\* right tie at 0, it went down
GreedySelectionWitness ==
    /\ pc = "idle"
    /\ ret.kind = "greedy_path"
    /\ ret.whole
    /\ ret.route = << <<0, 3>>, <<1, 3>>, <<1, 2>>, <<2, 2>>, <<3, 2>>,
                      <<3, 1>>, <<4, 1>>, <<4, 0>>, <<5, 0>> >>
    /\ ret.reward = 450
    /\ \A a \in 0 .. 3 : Q_matrix[3][a] = 0

---------------------------------------------------------------------------
\* the row of end_state, and an update on entering end_state
TerminalRowZero == \A a \in 0 .. 3 : Q_matrix[30][a] = 0

EnteringEnd ==
    updates' = updates + 1 /\ current_state_index' = 30 =>
        LET old == Q_matrix[current_state_index][action_index']
        IN  Den * Q_matrix'[current_state_index][action_index'] =
               Den * old + alpha * (1000 * Scale - old)

\* C10: all four entries of the Q-matrix row of end_state (index 30) stay 0;
\* an update whose move enters end_state has the target 1000, with no
\* bootstrapped term.  (Both sides times Den.)
TerminalRow == []TerminalRowZero /\ [][EnteringEnd]_vars

\* 'down' from (4,0) has entered end_state: Q[24][down] is alpha * 1000
TerminalRowWitness ==
    /\ pc = "step_loop"
    /\ current_state_index = 30
    /\ action_index = 1
    /\ episode_updates = 1
    /\ Den * Q_matrix[24][1] = alpha * 1000 * Scale

====
